---- MODULE Spec2Model ----
(***************************************************************************)
(* Model of the incremental OFX synchronisation of finance_dl/ofx.py:      *)
(* save_single_account_data with its helpers get_earliest_data,            *)
(* get_ofx_date_range, download_account_data_starting_from and the nested  *)
(* save_data / retrieve_more.                                              *)
(*                                                                         *)
(* Dates are day numbers (integers).  A datetime is a number of ticks,     *)
(* TicksPerDay ticks to the day; DateOf is datetime.date().  The running   *)
(* time of one call is short against a day, so `today' is one value for    *)
(* the whole call.                                                         *)
(***************************************************************************)
EXTENDS Integers, Sequences, FiniteSets, Bags, TLC

\* ---------------------------------------------------------------- bounds
\* Largest day number the server reports and the directory names.
MaxDay == 2
\* Number of requests a run is followed for.
MaxFetch == 1
\* Largest number of statement files in the directory before the run.
MaxInitFiles == 2
\* The first two for the runs against a server that serves from a date on.
MaxFromDay == 6
MaxFromFetch == 5
\* Number of requests a run is followed for when saves may share a second.
MaxLoopFetch == 2
\* Largest value of overlap_days tried.
MaxOverlap == 2

TicksPerDay == 2
\* Number of days in a month of the calendar the file names are written in.
MonthLen == 2
\* Largest number of entries in a directory whose names are of any form.
MaxListed == 2
\* Number of accounts save_all_account_data is followed over.
MaxAccounts == 2
\* Number of requests the pause between requests is followed over, the
\* longest request and the longest time between two calls, in seconds.
MaxRequests == 2
\* Largest day number of today and of min_start_date in the runs that are
\* followed through the search only.
MaxSearchDay == 8
\* Longest string given to sanitize_account_name alone, and longest account
\* number in the loop over the accounts.
MaxNameLen == 3
MaxNumberLen == 2
MaxDuration == 5
MaxIdle == 3
\* Largest number of statement files in the directory in the runs that are
\* followed for the choice of the range to extend.
MaxGapFiles == 3
\* update.py: the longest list of configurations on the command line, the
\* largest --parallelism, and the number of half days that pass in a run.
MaxConfigs == 2
MaxParallel == 2
MaxTicks == 1
\* scrape_lib.retry: the largest num_tries and the largest retry_delay.
MaxTries == 3
MaxRetryDelay == 1
\* Largest number of rows of a CSV file and of files given to one merge.
MaxRows == 2
MaxFiles == 2

\* Line 163: the pause is made when less than this many seconds have passed.
MinDelay == 5
\* Line 165: time.sleep(5)
SleepSeconds == 5

Days == 0..MaxDay

\* The value of an absent tag, and of "no date range".
NoTag == -1
None == <<>>

\* ------------------------------------------------------------ variables
VARIABLES
    pc,                 \* position in save_single_account_data
    dir,                \* the account directory: a set of files
    date_ranges,        \* the list date_ranges
    lower_bound,        \* get_earliest_data
    upper_bound,
    valid_data,
    valid_date_range,
    always_save,        \* the arguments of save_single_account_data
    overlap_days,
    min_days_retrieved,
    min_start_date,
    today,              \* datetime.date.today()
    now,                \* time.time(), in whole seconds
    server,             \* what the OFX server serves in this run
    clock,              \* whether two saves of this run may fall in one second
    budget,             \* the number of requests the run is followed for
    fetches,            \* history: the requests issued, <<phase, start date, range>>
    persisted,          \* history: the files written by this run, in order
    last,               \* history: the last iteration of the gap-fill loop
    saving,             \* the call of save_data that is under way, step by step
    fetch_error,        \* history: the exception a request raised
    accounts,           \* save_all_account_data: the loop over the accounts
    rate,               \* download_account_data_starting_from: the times of the requests
    naming,             \* save_all_account_data: the directory names of the accounts
    call,               \* one call of a function of the module: argument and result
    retrying,           \* scrape_lib.retry: the attempts of one call
    updating            \* update.py: the markers and the invocations of update

vars == <<pc, dir, date_ranges, lower_bound, upper_bound, valid_data,
          valid_date_range, always_save, overlap_days, min_days_retrieved,
          min_start_date, today, now, server, clock, budget, fetches, persisted, last,
          saving, fetch_error, accounts, rate, naming, call, retrying, updating>>

params == <<always_save, overlap_days, min_days_retrieved, min_start_date,
            today, server, clock, budget>>

search == <<lower_bound, upper_bound, valid_data, valid_date_range>>

\* What a run of save_single_account_data that is followed call by call
\* leaves alone.
calls == <<rate, naming, call, retrying, updating>>

extra == <<saving, fetch_error, accounts, calls>>

\* ------------------------------------------------------------- datetimes
DateTime(day, tick) == day * TicksPerDay + tick

\* datetime.date(): the day a datetime falls on.
DateOf(dt) == dt \div TicksPerDay

\* An OFX response as far as this program reads it: the values of its first
\* DTSTART and DTEND elements, NoTag for an element that is absent.
Response(s, e) == [dtstart |-> s, dtend |-> e]

NoData == Response(NoTag, NoTag)

\* get_ofx_date_range.  The mutant takes the one date that is there for both.
get_ofx_date_range_fills(data) ==
    IF data.dtstart = NoTag /\ data.dtend = NoTag THEN None
    ELSE IF data.dtstart = NoTag THEN <<data.dtend, data.dtend>>
    ELSE IF data.dtend = NoTag THEN <<data.dtstart, data.dtstart>>
    ELSE <<data.dtstart, data.dtend>>

get_ofx_date_range(data) ==
    IF data.dtstart = NoTag \/ data.dtend = NoTag
    THEN None
    ELSE <<data.dtstart, data.dtend>>

\* ----------------------------------------------------- the list of ranges
\* Order of Python tuples (start, end).
TupleLess(a, b) == a[1] < b[1] \/ (a[1] = b[1] /\ a[2] < b[2])

RECURSIVE InsertSorted(_, _)
InsertSorted(seq, r) ==
    IF seq = <<>> THEN <<r>>
    ELSE IF TupleLess(r, Head(seq)) THEN <<r>> \o seq
    ELSE <<Head(seq)>> \o InsertSorted(Tail(seq), r)

\* date_ranges.append(r); date_ranges.sort().  One mutant leaves out a range
\* the list has already, the other leaves out the sort.
AppendNewAndSort(seq, r) ==
    IF \E i \in DOMAIN seq : seq[i] = r THEN seq ELSE InsertSorted(seq, r)

AppendOnly(seq, r) == Append(seq, r)

AppendAndSort(seq, r) == InsertSorted(seq, r)

\* ------------------------------------------------------------ the files
\* The eight digits of a date in a file name are modelled by two fields,
\* <<month, day of the month>>, months counted from 1 and MonthLen days long.
\* The mutant of strptime counts the months from 0.
StrPTimeFromZero(digits) == digits[1] * MonthLen + (digits[2] - 1)

\* date.strftime('%Y%m%d')
StrFTime(day) == <<(day \div MonthLen) + 1, (day % MonthLen) + 1>>

\* Digits that strptime('%Y%m%d') takes: those of a date of the calendar.
IsDate(digits) == digits[1] >= 1 /\ digits[2] \in 1..MonthLen

\* datetime.datetime.strptime(digits, '%Y%m%d').date(), for digits of a date.
StrPTime(digits) == (digits[1] - 1) * MonthLen + (digits[2] - 1)

\* A directory entry: its name and the bytes stored under it.  The form of a
\* name is "ofx" for <start>-<end>--<timestamp>.ofx, "ofx+" for such a name
\* followed by more characters, "tmp" for the name of a temporary file of
\* atomic_write; `whole' tells whether all the bytes of `data' are stored.
Entry(form, sd, ed, t, data, whole) ==
    [form |-> form, start |-> sd, end |-> ed, ts |-> t, data |-> data, whole |-> whole]

\* A complete statement file, named by its dates and the time of its writing.
File(s, e, t, data) == Entry("ofx", StrFTime(s), StrFTime(e), t, data, TRUE)

FileName(f) == <<f.form, f.start, f.end, f.ts>>

\* re.match(r'^([0-9]{8})-([0-9]{8})--([0-9]+)\.ofx', name) is not None.  The
\* mutant ends the pattern with $.
MatchesToTheEnd(f) == f.form = "ofx"

Matches(f) == f.form \in {"ofx", "ofx+"}

\* Whether the loop over os.listdir raises ValueError: some matching name has
\* digits that are not those of a date.
LoadRaises(files) == \E f \in files : Matches(f) /\ ~(IsDate(f.start) /\ IsDate(f.end))

\* The loop over os.listdir: the ranges of the matching names with
\* start <= end, sorted.
RECURSIVE LoadRanges(_)
LoadRanges(files) ==
    IF files = {} THEN <<>>
    ELSE LET f == CHOOSE x \in files : TRUE
             rest == LoadRanges(files \ {f})
         IN IF ~Matches(f) THEN rest
            ELSE IF StrPTime(f.start) > StrPTime(f.end) THEN rest
            ELSE AppendAndSort(rest, <<StrPTime(f.start), StrPTime(f.end)>>)

\* ------------------------------------------------------------ the server
\* What the server may answer to a request for the statements from `start'
\* to today.  A server of kind "any" answers anything; a server of kind
\* "from" serves an interval that starts at the requested date when that
\* date is not before server.T, and no data otherwise.
AnyReplies ==
    {NoData, Response(DateTime(0, 0), NoTag), Response(NoTag, DateTime(0, 1))}
    \cup {Response(DateTime(s, 0), DateTime(e, 1)) : s \in Days, e \in Days}

FromReplies(start) ==
    IF start >= server.T
    THEN {Response(DateTime(start, 0), DateTime(e, 1)) : e \in start..today}
    ELSE {NoData}

\* A server of kind "yesno" answers any request with a statement from the
\* requested date to today, or with no data.
YesNoReplies(start) == {NoData, Response(DateTime(start, 0), DateTime(today, 1))}

\* download_account_data_starting_from: the bytes the server returns.
Replies(start) ==
    IF server.kind = "any" THEN AnyReplies
    ELSE IF server.kind = "yesno" THEN YesNoReplies(start)
    ELSE FromReplies(start)

\* -------------------------------------------------------------- history
NoLast == [outcome |-> "none", sel |-> None, before |-> <<>>, files |-> {},
           start |-> 0, range |-> None, saved |-> FALSE, repeat |-> 0]

\* The range of a response as save_data would record it.
RangeOf(data) ==
    IF get_ofx_date_range(data) = None THEN None
    ELSE <<DateOf(data.dtstart), DateOf(data.dtend)>>

\* The loop of save_all_account_data: the number of accounts after the one
\* the run is at, and how the call for the account before it ended.
AccountLoop(left, before) == [left |-> left, before |-> before]

OneAccount == AccountLoop(0, "none")

RetrieveCount == Cardinality({i \in DOMAIN fetches : fetches[i][1] = "retrieve"})

\* ----------------------------------------------------------------- init
InitFiles ==
    {File(s, e, 0, Response(DateTime(s, 1), DateTime(e, 1))) : s \in Days, e \in Days}

InitDirs == {d \in SUBSET InitFiles : Cardinality(d) <= MaxInitFiles}

InitCommon ==
    /\ pc = "load"
    /\ date_ranges = <<>>
    /\ lower_bound = 0
    /\ upper_bound = 0
    /\ valid_data = None
    /\ valid_date_range = None
    /\ always_save \in BOOLEAN
    /\ overlap_days \in 1..MaxOverlap
    /\ min_days_retrieved = 1
    /\ now = 0
    /\ fetches = <<>>
    /\ persisted = <<>>
    /\ last = NoLast
    /\ saving = None
    /\ fetch_error = None
    /\ rate = None
    /\ naming = None
    /\ call = None
    /\ retrying = None
    /\ updating = None

Init ==
    /\ InitCommon
    /\ dir \in InitDirs
    /\ today = MaxDay
    /\ min_start_date = 0
    /\ server = [kind |-> "any", T |-> 0]
    /\ clock = "ticking"
    /\ budget = MaxFetch
    /\ accounts = OneAccount

\* The same runs followed longer, with saves that may share a second.
InitLoop ==
    /\ InitCommon
    /\ dir \in InitDirs
    /\ today = MaxDay
    /\ min_start_date = 0
    /\ server = [kind |-> "any", T |-> 0]
    /\ clock = "free"
    /\ budget = MaxLoopFetch
    /\ accounts = OneAccount

\* A first run (empty directory) against a server that serves from T on.
InitFrom ==
    /\ InitCommon
    /\ dir = {}
    /\ today \in 1..MaxFromDay
    /\ min_start_date \in 0..today
    /\ \E T \in min_start_date..today : server = [kind |-> "from", T |-> T]
    /\ clock = "ticking"
    /\ budget = MaxFromFetch
    /\ accounts = OneAccount

\* -------------------------------------------------------------- actions
\* Lines 257-276 and the test of line 288: list the directory, sort the ranges.
\* The mutant makes the test of line 325 before the first request as well.
LoadStateTestsFirst ==
    /\ pc = "load"
    /\ date_ranges' = LoadRanges(dir)
    /\ IF Len(date_ranges') = 0
       THEN /\ pc' = "search"
            /\ lower_bound' = min_start_date
            /\ upper_bound' = today
            /\ valid_data' = None
            /\ valid_date_range' = None
       ELSE /\ pc' = IF today - date_ranges'[Len(date_ranges')][1] <= min_days_retrieved
                     THEN "done" ELSE "retrieve"
            /\ UNCHANGED search
    /\ UNCHANGED <<dir, params, extra, now, fetches, persisted, last>>

\* A further mutant runs the search whatever the directory holds.
LoadStateSearchesAnyway ==
    /\ pc = "load"
    /\ date_ranges' = LoadRanges(dir)
    /\ pc' = "search"
    /\ lower_bound' = min_start_date
    /\ upper_bound' = today
    /\ valid_data' = None
    /\ valid_date_range' = None
    /\ UNCHANGED <<dir, params, extra, now, fetches, persisted, last>>

\* strptime raises ValueError on digits that are not a date; nothing catches it.
LoadState ==
    /\ pc = "load"
    /\ IF LoadRaises(dir)
       THEN /\ pc' = "raised"
            /\ UNCHANGED <<date_ranges, search>>
       ELSE /\ date_ranges' = LoadRanges(dir)
            /\ IF Len(date_ranges') = 0
               THEN /\ pc' = "search"
                    /\ lower_bound' = min_start_date
                    /\ upper_bound' = today
                    /\ valid_data' = None
                    /\ valid_date_range' = None
               ELSE /\ pc' = "retrieve"
                    /\ UNCHANGED search
    /\ UNCHANGED <<dir, params, extra, now, fetches, persisted, last>>

\* The mid point of the binary search.  The mutant scans day by day.
MidLinear(lo, hi) == lo + 1

Mid(lo, hi) == lo + (hi - lo) \div 2

\* The test of the loop of get_earliest_data, line 200.
SearchGoesOn == lower_bound + 1 < upper_bound

\* Lines 205-210: the bounds <<lower_bound, upper_bound>> after the request
\* from mid, which found a date range or not.  The mutant swaps the two.
SearchBoundsSwapped(found, mid) ==
    IF found THEN <<mid, upper_bound>> ELSE <<lower_bound, mid>>

SearchBounds(found, mid) ==
    IF found THEN <<lower_bound, mid>> ELSE <<mid, upper_bound>>

\* Lines 206-208: a response with a date range replaces the one recorded
\* before.  The mutant keeps the first one.
FirstValid(recorded, found) == IF recorded = None THEN found ELSE recorded

LastValid(recorded, found) == found

\* One iteration of the loop of get_earliest_data.
SearchStep ==
    /\ pc = "search"
    /\ SearchGoesOn
    /\ LET mid == Mid(lower_bound, upper_bound) IN
       \E data \in Replies(mid) :
          LET date_range == get_ofx_date_range(data)
              bounds == SearchBounds(date_range # None, mid)
          IN
          /\ fetches' = Append(fetches, <<"search", mid, RangeOf(data)>>)
          /\ lower_bound' = bounds[1]
          /\ upper_bound' = bounds[2]
          /\ IF date_range # None
             THEN /\ valid_data' = LastValid(valid_data, data)
                  /\ valid_date_range' = LastValid(valid_date_range, date_range)
             ELSE UNCHANGED <<valid_data, valid_date_range>>
    /\ UNCHANGED <<pc, dir, date_ranges, params, extra, now, persisted, last>>

\* The search found nothing: RuntimeError, caught at line 292, return.
\* The mutant has no try/except around the call: the error reaches the caller.
SearchFailUncaught ==
    /\ pc = "search"
    /\ ~SearchGoesOn
    /\ valid_data = None
    /\ pc' = "raised"
    /\ UNCHANGED <<dir, date_ranges, search, params, extra, now, fetches, persisted, last>>

SearchFail ==
    /\ pc = "search"
    /\ ~SearchGoesOn
    /\ valid_data = None
    /\ pc' = "done"
    /\ UNCHANGED <<dir, date_ranges, search, params, extra, now, fetches, persisted, last>>

\* The name save_data gives the file written at time t, and the range it
\* appends to date_ranges.
SaveName(date_range, t) ==
    <<"ofx", StrFTime(DateOf(date_range[1])), StrFTime(DateOf(date_range[2])), t>>

SavedRange(date_range) == <<DateOf(date_range[1]), DateOf(date_range[2])>>

\* The file save_data writes at time t.  The mutant formats the start date
\* into both places of the name.
SavedFileStartTwice(date_range, data, t) ==
    File(DateOf(date_range[1]), DateOf(date_range[1]), t, data)

SavedFile(date_range, data, t) ==
    File(DateOf(date_range[1]), DateOf(date_range[2]), t, data)

\* atomic_write is called without overwrite, so it refuses a name that is in
\* the directory.  The mutant passes overwrite=True.
NameTakenOverwrite(name) == FALSE

NameTaken(name) == \E f \in dir : FileName(f) = name

\* The directory after a file is stored under its name: a directory holds
\* one entry of a name.
Stored(files, f) == {g \in files : FileName(g) # FileName(f)} \cup {f}

\* save_data at time t, then on to `next': atomic_write writes the file under
\* its name and does not replace a file of that name (FileExistsError, which
\* nothing catches); then the range is appended and the list sorted.
save_data(date_range, data, t, next) ==
    /\ now' = t
    /\ IF NameTaken(SaveName(date_range, t))
       THEN /\ pc' = "raised"
            /\ UNCHANGED <<dir, date_ranges, persisted>>
       ELSE LET f == SavedFile(date_range, data, t) IN
            /\ pc' = next
            /\ dir' = Stored(dir, f)
            /\ persisted' = Append(persisted, f)
            /\ date_ranges' = AppendAndSort(date_ranges, SavedRange(date_range))

\* The seconds time.time() may show at the next save: a later second than
\* that of the save before, or also the same second.
SaveTimes == IF clock = "free" THEN {now, now + 1} ELSE {now + 1}

\* The search found data: line 296.
SearchSave ==
    /\ pc = "search"
    /\ ~SearchGoesOn
    /\ valid_data # None
    /\ \E t \in SaveTimes : save_data(valid_date_range, valid_data, t, "retrieve")
    /\ UNCHANGED <<search, params, extra, fetches, last>>

\* retrieve_more, "Find next gap": the index of cur_range when the loop of
\* lines 301-307 ends, looking from index i on.  The mutant also passes over
\* a range that ends on the day the next one starts.
RECURSIVE FindGapFromAbut(_, _)
FindGapFromAbut(ranges, i) ==
    IF i + 1 <= Len(ranges) /\ ranges[i][2] >= ranges[i + 1][1]
    THEN FindGapFromAbut(ranges, i + 1)
    ELSE i

RECURSIVE FindGapFrom(_, _)
FindGapFrom(ranges, i) ==
    IF i + 1 <= Len(ranges) /\ ranges[i][2] > ranges[i + 1][1]
    THEN FindGapFrom(ranges, i + 1)
    ELSE i

cur_range == date_ranges[FindGapFrom(date_ranges, 1)]

\* The start date of the request of line 308.
RetrieveStart == cur_range[2] - overlap_days

\* Line 325: the test that ends the loop after a retrieve_more that returned
\* True.  The mutants compare strictly, and look at the end date of the range.
CaughtUpStrict(ranges) == today - ranges[Len(ranges)][1] < min_days_retrieved

CaughtUpByEnd(ranges) == today - ranges[Len(ranges)][2] <= min_days_retrieved

CaughtUp(ranges) == today - ranges[Len(ranges)][1] <= min_days_retrieved

\* Line 316: whether a response with the end date of cur_range is saved.
\* The mutant saves it whatever always_save is.
SaveSameEndAlways == TRUE

SaveSameEnd == always_save

\* The record of one iteration of the gap-fill loop.
Iteration(outcome, date_range, saved) ==
    LET range == IF date_range = None THEN None ELSE SavedRange(date_range) IN
    [outcome |-> outcome, sel |-> cur_range, before |-> date_ranges,
     files |-> dir, start |-> RetrieveStart, range |-> range, saved |-> saved,
     repeat |-> IF /\ last.outcome = "new" /\ outcome = "new"
                   /\ last.sel = cur_range /\ last.range = range
                   /\ last.saved /\ saved
                THEN last.repeat + 1 ELSE 0]

CanRetrieve ==
    /\ pc = "retrieve"
    /\ Len(fetches) < budget

\* retrieve_more, lines 311-314: no date range in the response; the loop ends.
\* The mutant raises, as get_earliest_data does when it finds no data.
RetrieveNoDataRaises ==
    /\ CanRetrieve
    /\ \E data \in Replies(RetrieveStart) :
          /\ get_ofx_date_range(data) = None
          /\ last' = Iteration("nodata", None, FALSE)
    /\ fetches' = Append(fetches, <<"retrieve", RetrieveStart, None>>)
    /\ pc' = "raised"
    /\ UNCHANGED <<dir, date_ranges, search, params, extra, now, persisted>>

RetrieveNoData ==
    /\ CanRetrieve
    /\ \E data \in Replies(RetrieveStart) :
          /\ get_ofx_date_range(data) = None
          /\ last' = Iteration("nodata", None, FALSE)
    /\ fetches' = Append(fetches, <<"retrieve", RetrieveStart, None>>)
    /\ pc' = "done"
    /\ UNCHANGED <<dir, date_ranges, search, params, extra, now, persisted>>

\* retrieve_more, lines 315-318: the end date is that of cur_range; the
\* response is saved if always_save, and the loop ends.
RetrieveSameEnd ==
    /\ CanRetrieve
    /\ \E data \in Replies(RetrieveStart) :
          LET date_range == get_ofx_date_range(data) IN
          /\ date_range # None
          /\ DateOf(date_range[2]) - cur_range[2] = 0
          /\ fetches' = Append(fetches, <<"retrieve", RetrieveStart, RangeOf(data)>>)
          /\ IF SaveSameEnd
             THEN \E t \in SaveTimes :
                     /\ save_data(date_range, data, t, "done")
                     /\ last' = Iteration("same", date_range,
                                          ~NameTaken(SaveName(date_range, t)))
             ELSE /\ pc' = "done"
                  /\ last' = Iteration("same", date_range, FALSE)
                  /\ UNCHANGED <<dir, date_ranges, now, persisted>>
    /\ UNCHANGED <<search, params, extra>>

\* retrieve_more, lines 319-320, and the loop test of lines 325-327: any other
\* end date; the response is saved and the loop goes on unless the last range
\* of the list starts no more than min_days_retrieved days before today.
RetrieveNewEnd ==
    /\ CanRetrieve
    /\ \E data \in Replies(RetrieveStart) :
          LET date_range == get_ofx_date_range(data) IN
          /\ date_range # None
          /\ DateOf(date_range[2]) - cur_range[2] # 0
          /\ fetches' = Append(fetches, <<"retrieve", RetrieveStart, RangeOf(data)>>)
          /\ \E t \in SaveTimes :
                /\ save_data(date_range, data, t,
                             IF CaughtUp(AppendAndSort(date_ranges, SavedRange(date_range)))
                             THEN "done" ELSE "retrieve")
                /\ last' = Iteration("new", date_range,
                                     ~NameTaken(SaveName(date_range, t)))
    /\ UNCHANGED <<search, params, extra>>

Next ==
    \/ LoadState
    \/ SearchStep
    \/ SearchFail
    \/ SearchSave
    \/ RetrieveNoData
    \/ RetrieveSameEnd
    \/ RetrieveNewEnd

Spec == Init /\ [][Next]_vars

SpecFrom == InitFrom /\ [][Next]_vars

SpecLoop == InitLoop /\ [][Next]_vars

\* ------------------------------------------------------ the search alone
\* A first run, through the search and its save, against a server that
\* answers each request with data or without.
InitSearch ==
    /\ InitCommon
    /\ dir = {}
    /\ today \in 0..MaxSearchDay
    /\ min_start_date \in 0..MaxSearchDay
    /\ server = [kind |-> "yesno", T |-> 0]
    /\ clock = "ticking"
    /\ budget = MaxFetch
    /\ accounts = OneAccount

NextSearch ==
    \/ LoadState
    \/ SearchStep
    \/ SearchFail
    \/ SearchSave

SpecSearch == InitSearch /\ [][NextSearch]_vars

\* ------------------------------------------ runs with other directories
\* Directories of at most one statement file.
SmallDirs == {{}} \cup {{f} : f \in InitFiles}

\* Runs whose saves may share a second, with either value of min_start_date.
InitWide ==
    /\ InitCommon
    /\ dir \in SmallDirs
    /\ today = MaxDay
    /\ min_start_date \in {0, 1}
    /\ server = [kind |-> "any", T |-> 0]
    /\ clock = "free"
    /\ budget = MaxFetch
    /\ accounts = OneAccount

SpecWide == InitWide /\ [][Next]_vars

\* ------------------------------------------------- the directory listing
\* The sets of at most k elements of S.
RECURSIVE SubsetsUpTo(_, _)
SubsetsUpTo(S, k) ==
    IF k = 0 THEN {{}}
    ELSE LET smaller == SubsetsUpTo(S, k - 1)
         IN smaller \cup {d \cup {x} : d \in smaller, x \in S}

\* The bytes of the entries the directory holds before the run.
ListedData(s, e) == Response(DateTime(s, 1), DateTime(e, 1))

\* Entries os.listdir may return: statement files written at two times, the
\* same names followed by more characters, a name whose digits are not a
\* date (day 00), a temporary file and a file of another name.
ListedEntries ==
    {Entry("ofx", StrFTime(s), StrFTime(e), t, ListedData(s, e), TRUE) :
        s \in Days, e \in Days, t \in {0, 1}}
    \cup {Entry("ofx+", StrFTime(s), StrFTime(e), 0, ListedData(s, e), TRUE) :
             s \in Days, e \in Days}
    \cup {Entry("ofx", <<1, 0>>, StrFTime(0), 0, ListedData(0, 0), TRUE),
          Entry("tmp", StrFTime(0), StrFTime(0), 0, ListedData(0, 0), FALSE),
          Entry("other", StrFTime(0), StrFTime(0), 0, NoData, TRUE)}

ListedDirs == SubsetsUpTo(ListedEntries, MaxListed)

InitLoad ==
    /\ InitCommon
    /\ dir \in ListedDirs
    /\ today = MaxDay
    /\ min_start_date = 0
    /\ server = [kind |-> "any", T |-> 0]
    /\ clock = "ticking"
    /\ budget = MaxFetch
    /\ accounts = OneAccount

\* The load of the directory alone.
SpecLoad == InitLoad /\ [][LoadState]_vars

\* Runs from directories of up to MaxGapFiles files.
InitGap ==
    /\ InitCommon
    /\ dir \in SubsetsUpTo(InitFiles, MaxGapFiles)
    /\ today = MaxDay
    /\ min_start_date = 0
    /\ server = [kind |-> "any", T |-> 0]
    /\ clock = "ticking"
    /\ budget = MaxFetch
    /\ accounts = OneAccount

SpecGap == InitGap /\ [][Next]_vars

\* ------------------------------------------------- requests that raise
\* The exceptions a request may raise, by what the except clause of line 292
\* makes of them: RuntimeError or a subclass of it, and any other exception.
ExcTypes == {"RuntimeError", "OSError"}

\* except RuntimeError, line 292.
Caught(type) == type = "RuntimeError"

\* A request of get_earliest_data raises: download_account_data_starting_from
\* has no handler and get_earliest_data has none; the call of
\* get_earliest_data is inside the try of line 289.
SearchRaises ==
    /\ pc = "search"
    /\ SearchGoesOn
    /\ \E type \in ExcTypes :
          /\ fetch_error' = [phase |-> "search", type |-> type]
          /\ pc' = IF Caught(type) THEN "done" ELSE "raised"
    /\ fetches' = Append(fetches, <<"search", Mid(lower_bound, upper_bound), None>>)
    /\ UNCHANGED <<dir, date_ranges, search, params, saving, accounts, calls, now, persisted, last>>

\* A request of retrieve_more raises: nothing catches it.
RetrieveRaises ==
    /\ CanRetrieve
    /\ \E type \in ExcTypes : fetch_error' = [phase |-> "retrieve", type |-> type]
    /\ pc' = "raised"
    /\ fetches' = Append(fetches, <<"retrieve", RetrieveStart, None>>)
    /\ UNCHANGED <<dir, date_ranges, search, params, saving, accounts, calls, now, persisted, last>>

NextErr ==
    \/ Next
    \/ SearchRaises
    \/ RetrieveRaises

InitErr ==
    /\ InitCommon
    /\ dir \in SmallDirs
    /\ today = MaxDay
    /\ min_start_date = 0
    /\ server = [kind |-> "any", T |-> 0]
    /\ clock = "ticking"
    /\ budget = MaxFetch
    /\ accounts = OneAccount

SpecErr == InitErr /\ [][NextErr]_vars

\* ------------------------------------------------- save_all_account_data
\* The loop of lines 345-355 goes to the next account when the call of
\* save_single_account_data returns; an exception leaves the loop.
AccountLoopGoesOn == pc = "done" /\ accounts.left > 0

\* The call for the next account: its own directory, its own date_ranges; the
\* keyword arguments are those of the call before.
NextAccount ==
    /\ AccountLoopGoesOn
    /\ accounts' = AccountLoop(accounts.left - 1, last.outcome)
    /\ pc' = "load"
    /\ dir' \in SmallDirs
    /\ date_ranges' = <<>>
    /\ lower_bound' = 0
    /\ upper_bound' = 0
    /\ valid_data' = None
    /\ valid_date_range' = None
    /\ fetches' = <<>>
    /\ persisted' = <<>>
    /\ last' = NoLast
    /\ UNCHANGED <<params, now, saving, fetch_error, calls>>

NextAll ==
    \/ Next
    \/ NextAccount

InitAll ==
    /\ InitCommon
    /\ dir \in SmallDirs
    /\ today = MaxDay
    /\ min_start_date = 0
    /\ server = [kind |-> "any", T |-> 0]
    /\ clock = "ticking"
    /\ budget = MaxFetch
    /\ accounts = AccountLoop(MaxAccounts - 1, "none")

SpecAll == InitAll /\ [][NextAll]_vars

\* ------------------------------------------------- the pause of line 161
\* Times are whole seconds.  The module starts with last_request_time = 0.0,
\* seconds since the epoch, so the first request finds tdiff >= MinDelay: the
\* clock starts at MinDelay.
\* The variables of a run of save_single_account_data, which the calls below
\* leave alone.
run == <<pc, dir, date_ranges, search, params, now, fetches, persisted, last,
         saving, fetch_error, accounts>>

NoGap == -1

InitRateOnly ==
    \E slowdown \in BOOLEAN :
       rate = [slowdown |-> slowdown, wall |-> MinDelay, last_request_time |-> 0,
               ended |-> 0, gap |-> NoGap, spacing |-> NoGap, count |-> 0,
               idle |-> FALSE]

\* Lines 161-163: whether the pause is made.  The mutant has the comparison
\* the other way round.
MustWaitInverted(slowdown, tdiff) == slowdown /\ tdiff > MinDelay

MustWait(slowdown, tdiff) == slowdown /\ tdiff < MinDelay

\* download_account_data_starting_from, for any account: the pause when
\* slowdown is set and less than MinDelay seconds have passed since
\* last_request_time, the assignment of last_request_time, and the request,
\* which takes d seconds.
DownloadRequest ==
    /\ rate # None
    /\ rate.count < MaxRequests
    /\ \E d \in 0..MaxDuration :
          LET tdiff == rate.wall - rate.last_request_time
              start == IF MustWait(rate.slowdown, tdiff)
                       THEN rate.wall + SleepSeconds ELSE rate.wall
          IN rate' = [rate EXCEPT !.last_request_time = start,
                                  !.wall = start + d,
                                  !.ended = start + d,
                                  !.gap = IF rate.count = 0 THEN NoGap
                                          ELSE start - rate.ended,
                                  !.spacing = IF rate.count = 0 THEN NoGap
                                              ELSE start - rate.last_request_time,
                                  !.count = rate.count + 1,
                                  !.idle = FALSE]
    /\ UNCHANGED <<run, naming, call, retrying, updating>>

\* The time the process spends between two requests: parsing, saving, going
\* to the next account.
Elapse ==
    /\ rate # None
    /\ ~rate.idle
    /\ rate.count < MaxRequests
    /\ \E e \in 1..MaxIdle : rate' = [rate EXCEPT !.wall = rate.wall + e, !.idle = TRUE]
    /\ UNCHANGED <<run, naming, call, retrying, updating>>

NextRate ==
    \/ DownloadRequest
    \/ Elapse

NoRun ==
    /\ pc = "idle"
    /\ dir = {}
    /\ date_ranges = <<>>
    /\ lower_bound = 0
    /\ upper_bound = 0
    /\ valid_data = None
    /\ valid_date_range = None
    /\ always_save = TRUE
    /\ overlap_days = 1
    /\ min_days_retrieved = 1
    /\ min_start_date = 0
    /\ today = MaxDay
    /\ now = 0
    /\ server = [kind |-> "any", T |-> 0]
    /\ clock = "ticking"
    /\ budget = MaxFetch
    /\ fetches = <<>>
    /\ persisted = <<>>
    /\ last = NoLast
    /\ saving = None
    /\ fetch_error = None
    /\ accounts = OneAccount

InitRate ==
    /\ NoRun
    /\ InitRateOnly
    /\ naming = None
    /\ call = None
    /\ retrying = None
    /\ updating = None

SpecRate == InitRate /\ [][NextRate]_vars

\* ------------------------------------------------- sanitize_account_name
\* Strings are sequences of characters; of a-z, 0-9 and A-Z the letter "a"
\* is tried, of the other characters "$" and "!".
Alphabet == {"a", ".", "-", "$", "!"}

\* The character class [a-z0-9A-Z.-] of line 152.
ValidChar(c) == c \in {"a", ".", "-"}

Strings(n) == UNION {[1..k -> Alphabet] : k \in 0..n}

\* What a call gives: a value, or an exception.
Returned(value) == [raised |-> FALSE, value |-> value]

Raised(type) == [raised |-> TRUE, value |-> type]

RECURSIVE DropInvalid(_)
DropInvalid(name) ==
    IF name = <<>> \/ ValidChar(Head(name)) THEN name ELSE DropInvalid(Tail(name))

\* re.sub('[^a-z0-9A-Z.-]+', '-', account_name): from the left, every longest
\* run of characters outside the class becomes one dash.  The mutant is the
\* pattern without the +.
RECURSIVE SubEachChar(_)
SubEachChar(name) ==
    IF name = <<>> THEN <<>>
    ELSE IF ValidChar(Head(name)) THEN <<Head(name)>> \o SubEachChar(Tail(name))
    ELSE <<"-">> \o SubEachChar(Tail(name))

RECURSIVE Sub(_)
Sub(name) ==
    IF name = <<>> THEN <<>>
    ELSE IF ValidChar(Head(name)) THEN <<Head(name)>> \o Sub(Tail(name))
    ELSE <<"-">> \o Sub(DropInvalid(Tail(name)))

\* Line 149.  The mutant forgets '..'.
IsDotNameSingle(name) == name = <<".">>

IsDotName(name) == name = <<".">> \/ name = <<".", ".">>

sanitize_account_name(account_name) ==
    IF IsDotName(account_name) THEN Raised("ValueError")
    ELSE Returned(Sub(account_name))

\* ------------------------------------------ the directory of each account
\* The name of line 351.
Blank == <<"b", "l", "a", "n", "k">>

\* Lines 346-353: the directory name of the account of a number.  One
\* mutant lets the ValueError through, the other sanitizes the mapped name.
DirNameUncaught(number, acct_dir_map) ==
    IF number \in DOMAIN acct_dir_map THEN Returned(acct_dir_map[number])
    ELSE sanitize_account_name(number)

DirNameSanitizesMapped(number, acct_dir_map) ==
    IF number \in DOMAIN acct_dir_map THEN sanitize_account_name(acct_dir_map[number])
    ELSE LET name == sanitize_account_name(number)
         IN IF name.raised THEN Returned(Blank) ELSE name

DirName(number, acct_dir_map) ==
    IF number \in DOMAIN acct_dir_map THEN Returned(acct_dir_map[number])
    ELSE LET name == sanitize_account_name(number)
         IN IF name.raised THEN Returned(Blank) ELSE name

\* Names a caller may map a number to: a plain one, '.', and one that
\* sanitize_account_name would change.
MappedNames == {<<"a">>, <<".">>, <<"$">>}

\* The mappings of some of the given numbers to mapped names.
Maps(numbers) == UNION {[D -> MappedNames] : D \in SUBSET numbers}

\* save_all_account_data for an institution of two accounts.
InitNaming ==
    /\ NoRun
    /\ rate = None
    /\ call = None
    /\ retrying = None
    /\ updating = None
    /\ \E n1 \in Strings(MaxNumberLen), n2 \in Strings(MaxNumberLen) :
          \E acct_dir_map \in Maps({n1, n2}) :
             naming = [numbers |-> <<n1, n2>>, acct_dir_map |-> acct_dir_map,
                       called |-> <<>>, raised |-> FALSE]

\* One iteration of the loop of line 345: the name of the directory, and the
\* call of save_single_account_data with it, which returns.
AccountIteration ==
    /\ naming # None
    /\ ~naming.raised
    /\ Len(naming.called) < Len(naming.numbers)
    /\ LET number == naming.numbers[Len(naming.called) + 1]
           name == DirName(number, naming.acct_dir_map)
       IN naming' = IF name.raised
                    THEN [naming EXCEPT !.raised = TRUE]
                    ELSE [naming EXCEPT !.called = Append(@, <<number, name.value>>)]
    /\ UNCHANGED <<run, rate, call, retrying, updating>>

SpecNaming == InitNaming /\ [][AccountIteration]_vars

\* ------------------------------------------------- calls of one function
\* The values a DTSTART or DTEND element may carry.
TagValues == {NoTag} \cup 0..DateTime(MaxDay + 1, 0)

InitCall ==
    /\ NoRun
    /\ rate = None
    /\ naming = None
    /\ retrying = None
    /\ updating = None
    /\ \/ \E name \in Strings(MaxNameLen) :
             call = [fn |-> "sanitize_account_name", arg |-> name, done |-> FALSE,
                     ret |-> Returned(None)]
       \/ \E s \in TagValues, e \in TagValues :
             call = [fn |-> "get_ofx_date_range", arg |-> Response(s, e), done |-> FALSE,
                     ret |-> Returned(None)]

CallSanitize ==
    /\ call # None
    /\ call.fn = "sanitize_account_name"
    /\ ~call.done
    /\ call' = [call EXCEPT !.done = TRUE, !.ret = sanitize_account_name(call.arg)]
    /\ UNCHANGED <<run, rate, naming, retrying, updating>>

\* get_ofx_date_range has no raise and calls nothing that raises on an
\* element that is absent.
CallExtract ==
    /\ call # None
    /\ call.fn = "get_ofx_date_range"
    /\ ~call.done
    /\ call' = [call EXCEPT !.done = TRUE, !.ret = Returned(get_ofx_date_range(call.arg))]
    /\ UNCHANGED <<run, rate, naming, retrying, updating>>

NextCall ==
    \/ CallSanitize
    \/ CallExtract

SpecCall == InitCall /\ [][NextCall]_vars

\* ---------------------------------------------- save_data, step by step
\* atomic_write(path, mode='wb'): a temporary file is made in the directory
\* of path, the bytes are written to it and flushed, the file is closed, then
\* linked under the name of path (FileExistsError if that name is taken, and
\* the temporary file is removed) and its temporary name is removed.
\* The temporary file of a save.  The mutant opens the file under its final
\* name: open(path, 'wb').
TempEntryInPlace(date_range, data, t, whole) ==
    Entry("ofx", StrFTime(DateOf(date_range[1])), StrFTime(DateOf(date_range[2])),
          t, data, whole)

TempEntry(date_range, data, t, whole) ==
    Entry("tmp", StrFTime(DateOf(date_range[1])), StrFTime(DateOf(date_range[2])),
          t, data, whole)

SavingTemp(whole) == TempEntry(saving.date_range, saving.data, saving.t, whole)

SavingFile == SavedFile(saving.date_range, saving.data, saving.t)

\* The state at the call of save_data(date_range, data) for a response with
\* a date range, the directory loaded.
InitPersist ==
    /\ pc = "save"
    /\ dir \in SmallDirs
    /\ date_ranges = LoadRanges(dir)
    /\ lower_bound = 0
    /\ upper_bound = 0
    /\ valid_data = None
    /\ valid_date_range = None
    /\ always_save \in BOOLEAN
    /\ overlap_days \in 1..MaxOverlap
    /\ min_days_retrieved = 1
    /\ min_start_date = 0
    /\ today = MaxDay
    /\ now = 0
    /\ server = [kind |-> "any", T |-> 0]
    /\ clock = "free"
    /\ budget = MaxFetch
    /\ fetches = <<>>
    /\ persisted = <<>>
    /\ last = NoLast
    /\ fetch_error = None
    /\ rate = None
    /\ naming = None
    /\ call = None
    /\ retrying = None
    /\ updating = None
    /\ accounts = OneAccount
    /\ \E data \in AnyReplies, t \in SaveTimes :
          /\ get_ofx_date_range(data) # None
          /\ saving = [date_range |-> get_ofx_date_range(data), data |-> data,
                       t |-> t, files |-> dir]

PersistFrame ==
    UNCHANGED <<search, params, saving, fetch_error, accounts, calls, now, fetches, last>>

\* The temporary file is made, empty.  The mutant appends the range to
\* date_ranges before anything is written.
PersistOpenAppends ==
    /\ pc = "save"
    /\ dir' = Stored(dir, SavingTemp(FALSE))
    /\ date_ranges' = AppendAndSort(date_ranges, SavedRange(saving.date_range))
    /\ pc' = "write"
    /\ UNCHANGED persisted
    /\ PersistFrame

PersistOpen ==
    /\ pc = "save"
    /\ dir' = Stored(dir, SavingTemp(FALSE))
    /\ pc' = "write"
    /\ UNCHANGED <<date_ranges, persisted>>
    /\ PersistFrame

\* f.write(data), and the flush and close at the end of the with block.
PersistWrite ==
    /\ pc = "write"
    /\ dir' = Stored(dir, SavingTemp(TRUE))
    /\ pc' = "commit"
    /\ UNCHANGED <<date_ranges, persisted>>
    /\ PersistFrame

\* os.link(temporary name, name), or the removal of the temporary file when
\* the name is taken.
PersistLink ==
    /\ pc = "commit"
    /\ IF NameTaken(FileName(SavingFile))
       THEN /\ dir' = dir \ {SavingTemp(TRUE)}
            /\ pc' = "raised"
       ELSE /\ dir' = Stored(dir, SavingFile)
            /\ pc' = "unlink"
    /\ UNCHANGED <<date_ranges, persisted>>
    /\ PersistFrame

\* os.unlink(temporary name)
PersistUnlink ==
    /\ pc = "unlink"
    /\ dir' = dir \ {SavingTemp(TRUE)}
    /\ pc' = "append"
    /\ UNCHANGED <<date_ranges, persisted>>
    /\ PersistFrame

\* date_ranges.append(...); date_ranges.sort()
PersistAppend ==
    /\ pc = "append"
    /\ date_ranges' = AppendAndSort(date_ranges, SavedRange(saving.date_range))
    /\ persisted' = Append(persisted, SavingFile)
    /\ pc' = "saved"
    /\ UNCHANGED dir
    /\ PersistFrame

\* The process stops at any point of save_data.
ProcessStops ==
    /\ pc \in {"save", "write", "commit", "unlink", "append"}
    /\ pc' = "stopped"
    /\ UNCHANGED <<dir, date_ranges, persisted>>
    /\ PersistFrame

\* The load of a later run, lines 264-276.
LaterLoad ==
    /\ pc = "stopped"
    /\ IF LoadRaises(dir)
       THEN /\ pc' = "raised"
            /\ UNCHANGED date_ranges
       ELSE /\ pc' = "reloaded"
            /\ date_ranges' = LoadRanges(dir)
    /\ UNCHANGED <<dir, persisted>>
    /\ PersistFrame

NextPersist ==
    \/ PersistOpen
    \/ PersistWrite
    \/ PersistLink
    \/ PersistUnlink
    \/ PersistAppend
    \/ ProcessStops
    \/ LaterLoad

SpecPersist == InitPersist /\ [][NextPersist]_vars

\* ------------------------------------------- merge_overlapping_csv_rows
\* csv_merge.py.  A row is a dict of the fields of the file; the rows a file
\* may hold here: two that differ in the note alone, and one of another date.
Rows == {[date |-> 1, note |-> 0], [date |-> 1, note |-> 1], [date |-> 2, note |-> 0]}

\* The fields the rows are compared on: the date alone, or every field.
CompareFields == {<<"date">>, <<"date", "note">>}

\* The sequences of at most n elements of S.
SeqsUpTo(S, n) == UNION {[1..k -> S] : k \in 0..n}

\* convert_row: tuple(row[field] for field in compare_fields).
convert_row(row, compare_fields) ==
    [i \in DOMAIN compare_fields |-> row[compare_fields[i]]]

\* counter[converted_row] += 1, a collections.Counter being a bag.
Incremented(counter, converted_row) == counter (+) SetToBag({converted_row})

\* The test of line 28.  The mutant keeps a row that its file holds as often
\* as the merge already does.
ExceedsOrEquals(cur, merged) == cur >= merged

Exceeds(cur, merged) == cur > merged

\* The loop of line 25 over the rows of one file, from row i on: cur_counter
\* counts the rows of this file, merged the rows and the counter of the merge.
RECURSIVE MergeFile(_, _, _, _, _)
MergeFile(csv_data, compare_fields, i, cur_counter, merged) ==
    IF i > Len(csv_data) THEN merged
    ELSE LET row == csv_data[i]
             converted_row == convert_row(row, compare_fields)
             cur == Incremented(cur_counter, converted_row)
         IN IF Exceeds(CopiesIn(converted_row, cur),
                       CopiesIn(converted_row, merged.counter))
            THEN MergeFile(csv_data, compare_fields, i + 1, cur,
                           [rows |-> Append(merged.rows, row),
                            counter |-> Incremented(merged.counter, converted_row)])
            ELSE MergeFile(csv_data, compare_fields, i + 1, cur, merged)

\* The loop of line 23 over the files, from file k on.
RECURSIVE MergeFrom(_, _, _, _)
MergeFrom(csv_data_list, compare_fields, k, merged) ==
    IF k > Len(csv_data_list) THEN merged
    ELSE MergeFrom(csv_data_list, compare_fields, k + 1,
                   MergeFile(csv_data_list[k], compare_fields, 1, EmptyBag, merged))

merge_overlapping_csv_rows(csv_data_list, compare_fields) ==
    MergeFrom(csv_data_list, compare_fields, 1,
              [rows |-> <<>>, counter |-> EmptyBag]).rows

InitMerge ==
    /\ NoRun
    /\ rate = None
    /\ naming = None
    /\ retrying = None
    /\ updating = None
    /\ \E csv_data_list \in SeqsUpTo(SeqsUpTo(Rows, MaxRows), MaxFiles),
          compare_fields \in CompareFields :
          call = [fn |-> "merge_overlapping_csv_rows",
                  arg |-> [csv_data_list |-> csv_data_list,
                           compare_fields |-> compare_fields],
                  done |-> FALSE, ret |-> Returned(None)]

CallMerge ==
    /\ call # None
    /\ call.fn = "merge_overlapping_csv_rows"
    /\ ~call.done
    /\ call' = [call EXCEPT !.done = TRUE,
                   !.ret = Returned(merge_overlapping_csv_rows(call.arg.csv_data_list,
                                                               call.arg.compare_fields))]
    /\ UNCHANGED <<run, rate, naming, retrying, updating>>

SpecMerge == InitMerge /\ [][CallMerge]_vars

\* ------------------------------------------------------------ update.py
\* The configurations of the configuration module.
ConfigNames == {"a", "b"}

\* get_last_update_time returns None when os.stat fails.
NoMarker == -1

\* Line 87: 24 * 60 * 60 seconds.  Times are seconds; the clock is read at
\* multiples of half a day.
SecondsPerDay == 24 * 60 * 60

HalfDay == SecondsPerDay \div 2

\* time.time() when the first invocation starts, and the modification times
\* the .lastupdate files may have then: none, 36, 24 and 12 hours before.
StartTime == 3 * HalfDay

MarkerTimes == {NoMarker, 0, HalfDay, 2 * HalfDay}

\* Line 86: whether a configuration is left out of configs_to_update.
Skipped(force, mtime, cur_time) ==
    ~force /\ mtime # NoMarker /\ cur_time - mtime < SecondsPerDay

\* Lines 83-92: the configurations of the list that are not skipped, in order.
RECURSIVE ConfigsToUpdate(_, _, _, _)
ConfigsToUpdate(configs, force, markers, cur_time) ==
    IF configs = <<>> THEN <<>>
    ELSE LET rest == ConfigsToUpdate(Tail(configs), force, markers, cur_time)
         IN IF Skipped(force, markers[Head(configs)], cur_time) THEN rest
            ELSE <<Head(configs)>> \o rest

\* Lines 127-134: the .lastupdate file is opened for writing when the
\* subprocess returned 0.  The mutant writes it at every end of a run.
MarkerWrittenAlways(outcome) == TRUE

MarkerWritten(outcome) == outcome = "zero"

\* One invocation of `update': the arguments, and, once Updater is
\* constructed, configs_to_update and the state of each call of run_config.
Invocation(force, parallelism, configs) ==
    [force |-> force, parallelism |-> parallelism, configs |-> configs,
     built |-> FALSE, todo |-> <<>>, jobs |-> <<>>]

Invocations(n) ==
    [1..n -> {Invocation(force, parallelism, configs) :
                 force \in BOOLEAN, parallelism \in 1..MaxParallel,
                 configs \in SeqsUpTo(ConfigNames, MaxConfigs)}]

UpdateFrame == UNCHANGED <<run, rate, naming, call, retrying>>

\* Updater.__init__, lines 76-94.
Construct(i) ==
    /\ ~updating.invs[i].built
    /\ LET inv == updating.invs[i]
           todo == ConfigsToUpdate(inv.configs, inv.force, updating.markers, updating.wall)
       IN updating' = [updating EXCEPT
              !.invs[i] = [inv EXCEPT !.built = TRUE, !.todo = todo,
                                      !.jobs = [k \in DOMAIN todo |-> "pending"]]]
    /\ UpdateFrame

JobsIn(inv, state) == {k \in DOMAIN inv.jobs : inv.jobs[k] = state}

\* Updater.__call__, lines 143-147, and run_config up to line 122: a free
\* thread of the pool takes the next configuration submitted, opens its log
\* and starts the subprocess.
StartConfig(i) ==
    /\ updating.invs[i].built
    /\ LET inv == updating.invs[i] IN
       /\ JobsIn(inv, "pending") # {}
       /\ Cardinality(JobsIn(inv, "running")) < inv.parallelism
       /\ LET k == CHOOSE j \in JobsIn(inv, "pending") :
                      \A l \in JobsIn(inv, "pending") : j <= l
          IN updating' = [updating EXCEPT !.invs[i].jobs[k] = "running"]
    /\ UpdateFrame

\* run_config, lines 123-141: the subprocess ends with return code 0 or
\* another one, or something in the try block raises.
FinishConfig(i) ==
    /\ updating.invs[i].built
    /\ LET inv == updating.invs[i] IN
       \E k \in JobsIn(inv, "running"), outcome \in {"zero", "nonzero", "raised"} :
          updating' = [updating EXCEPT
              !.invs[i].jobs[k] = outcome,
              !.markers = IF MarkerWritten(outcome)
                          THEN [@ EXCEPT ![inv.todo[k]] = updating.wall]
                          ELSE @]
    /\ UpdateFrame

\* Half a day passes.
Tick ==
    /\ updating.ticks < MaxTicks
    /\ updating' = [updating EXCEPT !.wall = @ + HalfDay, !.ticks = @ + 1]
    /\ UpdateFrame

NextUpdate ==
    \/ \E i \in DOMAIN updating.invs : Construct(i)
    \/ \E i \in DOMAIN updating.invs : StartConfig(i)
    \/ \E i \in DOMAIN updating.invs : FinishConfig(i)
    \/ Tick

InitUpdateCommon ==
    /\ NoRun
    /\ rate = None
    /\ naming = None
    /\ call = None
    /\ retrying = None

\* One invocation of `update', on a log directory with any markers.
InitUpdate ==
    /\ InitUpdateCommon
    /\ \E markers \in [ConfigNames -> MarkerTimes], invs \in Invocations(1) :
          updating = [wall |-> StartTime, ticks |-> 0, markers |-> markers, invs |-> invs]

SpecUpdate == InitUpdate /\ [][NextUpdate]_vars

\* Two invocations of `update' on one log directory that has no marker yet.
InitUpdates ==
    /\ InitUpdateCommon
    /\ \E invs \in Invocations(2) :
          updating = [wall |-> StartTime, ticks |-> 0,
                      markers |-> [n \in ConfigNames |-> NoMarker], invs |-> invs]

SpecUpdates == InitUpdates /\ [][NextUpdate]_vars

\* ------------------------------------------------------ scrape_lib.retry
\* What a call of func may do: return a value, raise an exception that
\* `except Exception' catches, or raise one that it does not catch.
Results == {"x", "y"}

Caught40 == {"TimeoutException", "ValueError"}

Uncaught40 == {"KeyboardInterrupt"}

\* Line 422: whether the exception caught is raised again.  The mutant
\* compares with <.
RetryExhaustedLate(num_tries) == num_tries < 0

RetryExhausted(num_tries) == num_tries <= 0

InitRetry ==
    /\ NoRun
    /\ rate = None
    /\ naming = None
    /\ call = None
    /\ updating = None
    /\ \E n \in 0..MaxTries, retry_delay \in 0..MaxRetryDelay :
          retrying = [n |-> n, num_tries |-> n, retry_delay |-> retry_delay,
                      outcomes |-> <<>>, sleeps |-> 0, slept |-> 0,
                      done |-> FALSE, ret |-> Returned(None)]

\* One turn of the loop of line 415: func is called; its result is returned;
\* an exception that is not an Exception goes to the caller; an Exception is
\* counted, and raised again when no try is left, or followed by
\* time.sleep(retry_delay).  What the k-th call returns or raises is
\* <<value, k>> or <<type, k>>.
RetryAttempt ==
    /\ retrying # None
    /\ ~retrying.done
    /\ LET k == Len(retrying.outcomes) + 1 IN
       \/ \E v \in Results :
             retrying' = [retrying EXCEPT !.outcomes = Append(@, Returned(<<v, k>>)),
                                          !.done = TRUE, !.ret = Returned(<<v, k>>)]
       \/ \E e \in Uncaught40 :
             retrying' = [retrying EXCEPT !.outcomes = Append(@, Raised(<<e, k>>)),
                                          !.done = TRUE, !.ret = Raised(<<e, k>>)]
       \/ \E e \in Caught40 :
             IF RetryExhausted(retrying.num_tries - 1)
             THEN retrying' = [retrying EXCEPT !.outcomes = Append(@, Raised(<<e, k>>)),
                                               !.num_tries = @ - 1,
                                               !.done = TRUE, !.ret = Raised(<<e, k>>)]
             ELSE retrying' = [retrying EXCEPT !.outcomes = Append(@, Raised(<<e, k>>)),
                                               !.num_tries = @ - 1,
                                               !.sleeps = @ + 1,
                                               !.slept = @ + retrying.retry_delay]
    /\ UNCHANGED <<run, rate, naming, call, updating>>

SpecRetry == InitRetry /\ [][RetryAttempt]_vars

\* ------------------------------------------------------------ properties
Abs(x) == IF x < 0 THEN -x ELSE x

\* The run has been through at least one iteration of the gap-fill loop.
Iterated == last.outcome # "none"

\* The positions of a list of ranges where a range does not end after the
\* start of the next one.
GapPositions(ranges) ==
    {i \in 1..(Len(ranges) - 1) : ranges[i][2] <= ranges[i + 1][1]}

Least(S) == CHOOSE x \in S : \A y \in S : x <= y

\* The end date the gap-fill step extends from, as the specification words it.
SelectedEnd(ranges) ==
    IF GapPositions(ranges) # {}
    THEN ranges[Least(GapPositions(ranges))][2]
    ELSE ranges[Len(ranges)][2]

LastFetch == fetches[Len(fetches)]

\* The last iteration received a range that ends after the selected range.
ForwardProgress ==
    /\ Iterated
    /\ last.range # None
    /\ last.range[2] > last.sel[2]

\* The greatest start date of a list of ranges.
GreatestStart(ranges) ==
    LET starts == {ranges[i][1] : i \in DOMAIN ranges}
    IN CHOOSE x \in starts : \A y \in starts : y <= x

\* C1: every request of the gap-fill loop starts overlap_days before E, the
\* end date of the first range of the sorted list that does not end after the
\* start of the next range, or of the last range when there is none.
C1_FetchStartsAtEarliestGap ==
    Iterated =>
        /\ last.start = SelectedEnd(last.before) - overlap_days
        /\ LastFetch[1] = "retrieve"
        /\ LastFetch[2] = last.start

\* A request made while the list had a gap before its last range: the
\* request starts from the gap and not from the last range.
C1_Witness ==
    /\ Iterated
    /\ GapPositions(last.before) # {}
    /\ last.start # last.before[Len(last.before)][2] - overlap_days
    /\ last.start = last.before[1][2] - overlap_days

\* C2: after a gap-fill request whose response does not end after the
\* selected range (same end date, or an earlier one), no further request is
\* issued in the run.
C2_StopsWithoutAdvance ==
    (Iterated /\ last.range # None /\ last.range[2] <= last.sel[2])
        => pc # "retrieve"

\* C3: a run issues finitely many requests; it does not select the same range
\* and save the same response for it in an iteration after another and then
\* go on to the next request.
C3_NoRepeatedIteration == ~(last.repeat >= 1 /\ pc = "retrieve")

\* Every day from the first start date to the last end date of a list of
\* ranges lies in one of its ranges.  It is so whenever every range but the
\* last ends after the start of the next one.
Covered(ranges) ==
    \A d \in Days :
        (/\ \E i \in DOMAIN ranges : ranges[i][1] <= d
         /\ \E i \in DOMAIN ranges : d <= ranges[i][2])
            => \E i \in DOMAIN ranges : ranges[i][1] <= d /\ d <= ranges[i][2]

\* C4: a run that ends by the caught-up rule (its last request made forward
\* progress and was saved, and no request of the run came back without a
\* date range) leaves no gap in the list of ranges: no day between two ranges
\* is left out.  Stated for the runs in which every range starts no later
\* than it ends.
C4_NoGapWhenCaughtUp ==
    (/\ pc = "done"
     /\ ForwardProgress
     /\ last.saved
     /\ \A i \in DOMAIN fetches : fetches[i][3] # None
     /\ \A i \in DOMAIN date_ranges : date_ranges[i][1] <= date_ranges[i][2])
        => Covered(date_ranges)

\* The binary search of a first run is over.
SearchOver ==
    /\ pc # "load"
    /\ ~(pc = "search" /\ lower_bound + 1 < upper_bound)

\* The search ended with a range that starts within a day of server.T.
FoundNearT ==
    /\ valid_date_range # None
    /\ Abs(DateOf(valid_date_range[1]) - server.T) <= 1

\* C5 as stated: against a server that serves from T on, for every T from
\* min_start_date to today the search ends with a valid range that starts
\* within one day of T.
C5_SearchConverges == SearchOver => FoundNearT

\* C5 as amended: the same for every T before today, when today is more than
\* one day after min_start_date.
C5_SearchConvergesBeforeToday ==
    (SearchOver /\ server.T < today /\ min_start_date + 1 < today) => FoundNearT

\* A search of three requests that found the first day the server serves.
C5_Witness ==
    /\ SearchOver
    /\ server.T < today
    /\ Len(fetches) >= 3
    /\ valid_date_range # None
    /\ DateOf(valid_date_range[1]) = server.T
    /\ fetches[1][3] = None

\* The first file the run wrote starts within a day of server.T.
FirstFileNearT ==
    /\ persisted # <<>>
    /\ Abs(StrPTime(persisted[1].start) - server.T) <= 1

\* The most recent range starts within min_days_retrieved days of today.
Recent == today - GreatestStart(date_ranges) <= min_days_retrieved

\* C6 as stated: a first run against a server that serves from T on, once it
\* has found data, writes a file that starts within a day of T and ends with
\* the most recent range starting within min_days_retrieved days of today.
C6_FirstRunEndsRecent ==
    (pc = "done" /\ valid_date_range # None) => (FirstFileNearT /\ Recent)

\* C6 as amended: such a run writes a file that starts within a day of T, and
\* it ends when the most recent range starts within min_days_retrieved days of
\* today, or when a request brings no date range, or one with the end date
\* of the selected range.
C6_FirstRunEndsByAStopRule ==
    (pc = "done" /\ valid_date_range # None) =>
        /\ FirstFileNearT
        /\ Iterated
        /\ \/ Recent
           \/ last.outcome = "nodata"
           \/ last.outcome = "same"

\* A first run that went through the gap-fill loop twice and ended caught up.
C6_Witness ==
    /\ pc = "done"
    /\ valid_date_range # None
    /\ RetrieveCount >= 2
    /\ last.outcome = "new"
    /\ Recent
    /\ today - StrPTime(persisted[1].start) > min_days_retrieved

\* The directory held no file with a valid range when the run began.
LoadedNone == \A f \in dir : (StrPTime(f.start) <= StrPTime(f.end)) => \E i \in DOMAIN persisted : persisted[i] = f

\* No request of the binary search came back with a date range.
SearchFoundNothing ==
    \A i \in DOMAIN fetches : fetches[i][1] = "search" => fetches[i][3] = None

\* C7: when no request of the binary search returns a valid range, the run
\* returns normally, writes no file and issues no gap-fill request.
C7_EmptySearchReturns ==
    (pc \notin {"load", "search"} /\ LoadedNone /\ SearchFoundNothing)
        => (pc = "done" /\ persisted = <<>> /\ RetrieveCount = 0)

\* A search that made requests and found nothing.
C7_Witness ==
    /\ pc = "done"
    /\ LoadedNone
    /\ SearchFoundNothing
    /\ Len(fetches) >= 1

\* C8: after a gap-fill request that made forward progress and was saved,
\* another request follows exactly when the range with the greatest start
\* date starts more than min_days_retrieved days before today; otherwise the
\* loop is over.
C8_CaughtUpRule ==
    (ForwardProgress /\ last.saved) =>
        /\ pc \in {"retrieve", "done"}
        /\ (pc = "retrieve") <=> (today - GreatestStart(date_ranges) > min_days_retrieved)

\* Forward progress that lands exactly min_days_retrieved days before today.
C8_Witness ==
    /\ ForwardProgress
    /\ last.saved
    /\ pc = "done"
    /\ today - GreatestStart(date_ranges) = min_days_retrieved
    /\ today - last.sel[1] > min_days_retrieved

\* C9: a run that ends normally with a list of ranges that is not empty
\* (loaded, or found by the search) has issued a gap-fill request.
C9_AlwaysOneRequest ==
    (pc = "done" /\ date_ranges # <<>>) => RetrieveCount >= 1

\* A run whose most recent range was recent before its only request.
C9_Witness ==
    /\ pc = "done"
    /\ RetrieveCount = 1
    /\ today - GreatestStart(last.before) <= min_days_retrieved

\* C10: with always_save false, a gap-fill request that returns the end date
\* of the selected range writes no file, leaves the list of ranges as it was
\* and ends the loop.
C10_SameEndNotSaved ==
    (~always_save /\ last.outcome = "same") =>
        /\ pc = "done"
        /\ dir = last.files
        /\ date_ranges = last.before

\* The scenario of the specification, scaled: the list is [(0, 2)], the
\* request starts at 2 - overlap_days and returns a range that ends on day 2.
C10_Witness ==
    /\ ~always_save
    /\ last.outcome = "same"
    /\ last.before = << <<0, 2>> >>
    /\ last.range = <<2 - overlap_days, 2>>
    /\ pc = "done"

\* ------------------------------------------------------------ C11 .. C20
\* The files of the run: those it has written.
WrittenByRun(files) == \A f \in files : \E i \in DOMAIN persisted : persisted[i] = f

\* C11: with always_save, a response of retrieve_more whose end date is that
\* of the selected range is stored as exactly one new file and one new entry
\* of date_ranges, and the loop ends.  Stated for the runs that began with an
\* empty directory.
C11_AlwaysSavePersists ==
    (always_save /\ last.outcome = "same" /\ WrittenByRun(last.files)) =>
        /\ pc = "done"
        /\ Cardinality(dir) = Cardinality(last.files) + 1
        /\ Len(date_ranges) = Len(last.before) + 1

\* C12: whenever the process stops during save_data, no entry whose name
\* matches the statement pattern holds part of a response: such an entry was
\* there before the save or is the whole file of this save, linked from the
\* written temporary file; and a later load takes its ranges from whole files.
C12_NoPartialStatement ==
    /\ \A f \in dir :
          Matches(f) =>
             /\ f.whole
             /\ \/ f \in saving.files
                \/ /\ f = SavingFile
                   /\ pc \in {"unlink", "append", "saved", "stopped", "reloaded"}
    /\ pc = "reloaded" => date_ranges = LoadRanges({f \in dir : f.whole})

C12_Witness == pc = "reloaded" /\ SavingTemp(FALSE) \in dir

\* C13: no step of a run removes, renames or changes a file of the directory:
\* every entry, with its name and its bytes, is still there after the step.
C13_FilesOnlyAdded == [][\A f \in dir : f \in dir']_vars

C13_Witness ==
    /\ Len(persisted) >= 1
    /\ \E f \in dir :
          /\ ~WrittenByRun({f})
          /\ f.start = persisted[1].start
          /\ f.end = persisted[1].end

\* C14: every range of date_ranges has start <= end, whatever the server
\* reports.
C14_RangesWellFormed ==
    \A i \in DOMAIN date_ranges : date_ranges[i][1] <= date_ranges[i][2]

\* C15: the dates in the name of every file the run wrote are the dates of
\* DTSTART and DTEND that get_ofx_date_range returns for the bytes of the
\* file, and no file is written for a response without a date range.
C15_NameMatchesContent ==
    /\ \A i \in DOMAIN persisted :
          LET f == persisted[i]
              date_range == get_ofx_date_range(f.data)
          IN /\ date_range # None
             /\ f.form = "ofx"
             /\ f.whole
             /\ f.start = StrFTime(DateOf(date_range[1]))
             /\ f.end = StrFTime(DateOf(date_range[2]))
    /\ Len(persisted) <= Cardinality({i \in DOMAIN fetches : fetches[i][3] # None})

C15_Witness ==
    \E i \in DOMAIN persisted : StrPTime(persisted[i].start) < StrPTime(persisted[i].end)

\* C16: a directory that holds only the file <s>-<e>--<t>.ofx, s <= e, loads
\* as the one range (s, e), whatever t is, and the request that follows
\* starts overlap_days before e.
C16_FileNameRoundTrip ==
    (pc # "load" /\ Cardinality(dir) = 1) =>
        \A f \in dir : \A s \in Days, e \in Days :
            (f.form = "ofx" /\ s <= e /\ f.start = StrFTime(s) /\ f.end = StrFTime(e)) =>
                /\ pc = "retrieve"
                /\ date_ranges = << <<s, e>> >>
                /\ RetrieveStart = e - overlap_days
                /\ \A t \in 0..MaxDay : LoadRanges({[f EXCEPT !.ts = t]}) = date_ranges

C16_Witness ==
    /\ pc = "retrieve"
    /\ Cardinality(dir) = 1
    /\ \E f \in dir : f.form = "ofx" /\ f.ts = 1 /\ StrPTime(f.start) < StrPTime(f.end)

\* The entries named <8 digits>-<8 digits>--<digits>.ofx with start <= end.
ExactForm(files) ==
    {f \in files : f.form = "ofx" /\ StrPTime(f.start) <= StrPTime(f.end)}

\* C17: after the load, date_ranges holds one range for each entry named
\* <8 digits>-<8 digits>--<digits>.ofx with start <= end and nothing else, and
\* the load does not raise.  Stated for directories whose digits are dates.
C17_LoadTakesExactForm ==
    (pc # "load" /\ \A f \in dir : IsDate(f.start) /\ IsDate(f.end)) =>
        /\ pc # "raised"
        /\ Len(date_ranges) = Cardinality(ExactForm(dir))
        /\ \A f \in ExactForm(dir) :
              \E i \in DOMAIN date_ranges :
                 date_ranges[i] = <<StrPTime(f.start), StrPTime(f.end)>>

\* The directory held a statement file with start <= end before the run.
HadValidFile ==
    \E f \in dir :
       /\ ~WrittenByRun({f})
       /\ Matches(f)
       /\ StrPTime(f.start) <= StrPTime(f.end)

\* C18: when the directory holds a valid statement file, the run makes no
\* request of the search and never reads min_start_date: the bounds of the
\* search are never set and every request is one of retrieve_more, starting
\* overlap_days before the end of the selected range.
C18_MinStartDateUnused ==
    (pc # "load" /\ HadValidFile) =>
        /\ \A i \in DOMAIN fetches : fetches[i][1] = "retrieve"
        /\ lower_bound = 0 /\ upper_bound = 0
        /\ valid_data = None /\ valid_date_range = None
        /\ Iterated => LastFetch[2] = SelectedEnd(last.before) - overlap_days

C18_Witness ==
    /\ HadValidFile
    /\ min_start_date = 1
    /\ Len(fetches) >= 1
    /\ Len(persisted) >= 1

\* C19: an exception raised by a request, of the search or of retrieve_more,
\* reaches the caller of save_single_account_data.
C19_FetchErrorPropagates == fetch_error # None => pc = "raised"

\* C20: a response of retrieve_more without a date range ends the call
\* normally: nothing is written, no range is added, no request follows, and
\* the loop over the accounts goes on when accounts are left.
C20_NoDataEndsRun ==
    last.outcome = "nodata" =>
        /\ pc = "done"
        /\ dir = last.files
        /\ date_ranges = last.before
        /\ LastFetch = <<"retrieve", last.start, None>>
        /\ accounts.left > 0 => AccountLoopGoesOn

C20_Witness == accounts.before = "nodata" /\ Len(fetches) >= 1

\* ------------------------------------------------------------ C21 .. C30
\* C21: with slowdown set, every request but the first starts at least
\* MinDelay seconds after the end of the request before it, however long the
\* requests take.
C21_MinimumDelay ==
    (rate # None /\ rate.slowdown /\ rate.count >= 2) => rate.gap >= MinDelay

\* The accounts the loop has been through whose number has no entry in
\* acct_dir_map.
Unmapped ==
    {i \in 1..Len(naming.called) : naming.numbers[i] \notin DOMAIN naming.acct_dir_map}

DotNames == {<<".">>, <<".", ".">>}

\* C22: two accounts of different numbers, neither in acct_dir_map, are
\* given different directory names.  Stated for numbers other than '.' and
\* '..'.
C22_DistinctDirectories ==
    naming # None =>
        \A i \in Unmapped, j \in Unmapped :
            (/\ naming.numbers[i] # naming.numbers[j]
             /\ naming.numbers[i] \notin DotNames
             /\ naming.numbers[j] \notin DotNames) =>
                naming.called[i][2] # naming.called[j][2]

\* The first account has the number '.' or '..' and no entry in acct_dir_map,
\* and the loop has been at it.
DotAccountDone ==
    /\ naming # None
    /\ naming.numbers[1] \in DotNames
    /\ naming.numbers[1] \notin DOMAIN naming.acct_dir_map
    /\ (naming.raised \/ Len(naming.called) >= 1)

\* C23, as stated: for an account whose number is '.' or '..', without entry
\* in acct_dir_map, save_all_account_data raises and calls
\* save_single_account_data for no directory.
C23_DotNumberRaises ==
    DotAccountDone => (naming.raised /\ naming.called = <<>>)

\* C23, amended: for such an account the ValueError is caught, nothing is
\* raised to the caller, and save_single_account_data is called with the
\* directory name 'blank'.
C23_DotNumberFallsBack ==
    DotAccountDone =>
        /\ ~naming.raised
        /\ naming.called[1] = <<naming.numbers[1], Blank>>

C23_Witness == DotAccountDone /\ naming.numbers[1] = <<".", ".">>

\* The positions of a string whose character gives a character of the
\* result: a character of the class, or the first character of a run of
\* others.
GivesOutput(name) ==
    {i \in 1..Len(name) : ValidChar(name[i]) \/ i = 1 \/ ValidChar(name[i - 1])}

Collapsed(name) ==
    LET positions == SelectSeq([i \in 1..Len(name) |-> i], LAMBDA i : i \in GivesOutput(name))
    IN [k \in 1..Len(positions) |->
           IF ValidChar(name[positions[k]]) THEN name[positions[k]] ELSE "-"]

SanitizeCalled == call # None /\ call.fn = "sanitize_account_name" /\ call.done

\* C24: for an input other than '.' and '..', sanitize_account_name returns
\* the input with every longest run of characters outside [a-zA-Z0-9.-]
\* replaced by one dash, the other characters kept in order; an input of
\* characters of the class only is returned as it is.
C24_SanitizeCollapsesRuns ==
    (SanitizeCalled /\ call.arg \notin DotNames) =>
        /\ ~call.ret.raised
        /\ call.ret.value = Collapsed(call.arg)
        /\ (\A i \in 1..Len(call.arg) : ValidChar(call.arg[i])) => call.ret.value = call.arg

C24_Witness ==
    /\ SanitizeCalled
    /\ call.arg = <<"$", "!", "a">>
    /\ call.ret.value = <<"-", "a">>

\* C25: sanitize_account_name raises ValueError for '.' and for '..'.
C25_DotNamesRaise ==
    (SanitizeCalled /\ call.arg \in DotNames) => call.ret = Raised("ValueError")

C25_Witness == SanitizeCalled /\ call.arg = <<".", ".">>

\* C26: an account whose number has an entry in acct_dir_map gets the mapped
\* name as it is, whatever the number and the name are, and nothing is raised.
C26_MappedNameVerbatim ==
    naming # None =>
        /\ \A i \in 1..Len(naming.called) :
              naming.numbers[i] \in DOMAIN naming.acct_dir_map =>
                 naming.called[i] = <<naming.numbers[i],
                                      naming.acct_dir_map[naming.numbers[i]]>>
        /\ (\A i \in 1..Len(naming.numbers) :
               naming.numbers[i] \in DOMAIN naming.acct_dir_map) => ~naming.raised

C26_Witness ==
    /\ naming # None
    /\ Len(naming.called) = 2
    /\ naming.numbers[1] = <<".">>
    /\ naming.called[1][2] = <<"$">>
    /\ naming.called[2][2] = <<".">>

ExtractCalled == call # None /\ call.fn = "get_ofx_date_range" /\ call.done

\* C29: get_ofx_date_range returns (DTSTART, DTEND) when both elements are
\* there, and None, without raising, when one or both are missing.
C29_ExtractNeedsBoth ==
    ExtractCalled =>
        /\ ~call.ret.raised
        /\ IF call.arg.dtstart # NoTag /\ call.arg.dtend # NoTag
           THEN call.ret.value = <<call.arg.dtstart, call.arg.dtend>>
           ELSE call.ret.value = None

C29_Witness ==
    /\ ExtractCalled
    /\ call.arg.dtstart # NoTag
    /\ call.arg.dtend = NoTag
    /\ call.ret.value = None

\* The statement files with start <= end that were in the directory before
\* the run.
LoadedFiles ==
    {f \in dir : ~WrittenByRun({f}) /\ Matches(f) /\ StrPTime(f.start) <= StrPTime(f.end)}

\* C27: date_ranges is never deduplicated or merged: after the load its
\* length is the number of valid files loaded plus the number of files the
\* run has written, each of which is in the directory next to the others.
C27_NoDeduplication ==
    pc # "load" =>
        /\ Len(date_ranges) = Cardinality(LoadedFiles) + Len(persisted)
        /\ Cardinality(dir) = Cardinality({f \in dir : ~WrittenByRun({f})}) + Len(persisted)

C27_Witness ==
    /\ Len(persisted) >= 1
    /\ \E i \in DOMAIN date_ranges, j \in DOMAIN date_ranges : i < j /\ date_ranges[i] = date_ranges[j]

\* C28: after the load and after every save date_ranges is sorted by start
\* date.
C28_SortedByStart ==
    pc # "load" =>
        \A i \in DOMAIN date_ranges, j \in DOMAIN date_ranges :
            i < j => date_ranges[i][1] <= date_ranges[j][1]

C28_Witness ==
    /\ Len(persisted) >= 1
    /\ Len(date_ranges) >= 2
    /\ StrPTime(persisted[Len(persisted)].start) < date_ranges[Len(date_ranges)][1]

\* The least k with 2^k >= n, for n >= 1.
CeilLog2(n) == CHOOSE k \in 0..n : 2^k >= n /\ \A j \in 0..(k - 1) : 2^j < n

SearchFetches == {i \in DOMAIN fetches : fetches[i][1] = "search"}

\* C30: the search makes at most ceil(log2(today - min_start_date)) requests,
\* each for a date strictly between min_start_date and today, and none when
\* today - min_start_date <= 1; it ends with bounds at most a day apart.
C30_SearchIsLogarithmic ==
    LET width == today - min_start_date IN
    /\ \A i \in SearchFetches : min_start_date < fetches[i][2] /\ fetches[i][2] < today
    /\ width <= 1 => SearchFetches = {}
    /\ width >= 1 => Cardinality(SearchFetches) <= CeilLog2(width)
    /\ (pc \in {"retrieve", "done", "raised"} /\ width >= 1) => upper_bound - lower_bound <= 1

C30_Witness ==
    /\ pc = "retrieve"
    /\ today - min_start_date = 5
    /\ Cardinality(SearchFetches) = 3

\* ------------------------------------------------------------ C31 .. C40
MergeCalled == call # None /\ call.fn = "merge_overlapping_csv_rows" /\ call.done

\* The number of rows of a file with a key.
RowsWithKey(csv_data, key, compare_fields) ==
    Cardinality({i \in DOMAIN csv_data : convert_row(csv_data[i], compare_fields) = key})

\* The keys of the rows there are.
KeysOn(compare_fields) == {convert_row(row, compare_fields) : row \in Rows}

\* C31: the merge keeps, for every key, as many rows as the file that holds
\* the key most often; every row it keeps is a row of a file.
C31_MergeKeepsMaximum ==
    MergeCalled =>
        LET files == call.arg.csv_data_list
            cf == call.arg.compare_fields
            merged == call.ret.value
        IN /\ \A key \in KeysOn(cf) :
                 /\ \A k \in DOMAIN files :
                       RowsWithKey(merged, key, cf) >= RowsWithKey(files[k], key, cf)
                 /\ \/ RowsWithKey(merged, key, cf) = 0
                    \/ \E k \in DOMAIN files :
                          RowsWithKey(merged, key, cf) = RowsWithKey(files[k], key, cf)
           /\ \A i \in DOMAIN merged :
                 \E k \in DOMAIN files : \E j \in DOMAIN files[k] : merged[i] = files[k][j]

C31_Witness ==
    /\ MergeCalled
    /\ call.arg.compare_fields = <<"date">>
    /\ Len(call.arg.csv_data_list) = 2
    /\ RowsWithKey(call.arg.csv_data_list[1], <<1>>, <<"date">>) = 1
    /\ RowsWithKey(call.arg.csv_data_list[2], <<1>>, <<"date">>) = 2
    /\ RowsWithKey(call.arg.csv_data_list[2], <<2>>, <<"date">>) = 0
    /\ Len(call.ret.value) = 2

\* Every range of the list starts no later than it ends.
StartsBeforeEnds(ranges) == \A i \in DOMAIN ranges : ranges[i][1] <= ranges[i][2]

\* C32: when the gap-fill step selects a range other than the last one, no
\* range at or before its position ends after the start of the next range.
C32_NoSpannedGap ==
    (Iterated /\ StartsBeforeEnds(last.before)) =>
        LET i == FindGapFrom(last.before, 1)
        IN i < Len(last.before) =>
              \A k \in 1..i : last.before[k][2] <= last.before[i + 1][1]

\* The search requests that returned a statement with a date range.
ValidSearches == {i \in SearchFetches : fetches[i][3] # None}

\* C33: a search that found data is followed by the save of exactly one file:
\* the response to the valid request with the earliest start date, which is
\* the last valid request made, under the name of its date range.
C33_BootstrapKeepsEarliest ==
    (pc = "retrieve" /\ ValidSearches # {}) =>
        /\ Len(persisted) = 1
        /\ \E e \in ValidSearches :
              /\ \A j \in ValidSearches : fetches[e][2] <= fetches[j][2] /\ j <= e
              /\ persisted[1].data = Response(DateTime(fetches[e][2], 0), DateTime(today, 1))
              /\ <<StrPTime(persisted[1].start), StrPTime(persisted[1].end)>> = fetches[e][3]
        /\ {f \in dir : f.form = "ofx"} = {persisted[1]}

C33_Witness ==
    /\ pc = "retrieve"
    /\ Cardinality(ValidSearches) = 2
    /\ Cardinality(SearchFetches) = 3
    /\ fetches[1][3] # None
    /\ fetches[2][3] = None
    /\ Len(persisted) = 1

\* C34: at the normal end of a run that saved a response, loading the
\* directory again gives the list of ranges the run ended with.
C34_ReloadGivesRanges ==
    (pc = "done" /\ Len(persisted) >= 1 /\ ~LoadRaises(dir)) =>
        LoadRanges(dir) = date_ranges

\* The complete statement files of the directory whose names give a range.
FilesOf(date_range) ==
    {f \in dir : /\ Matches(f)
                 /\ f.whole
                 /\ <<StrPTime(f.start), StrPTime(f.end)>> = date_range}

\* C35: at every point of save_data, and after the process stopped in it,
\* every range of date_ranges has a complete file of its dates in the
\* directory, and the list is no longer than the files are many.
C35_RangesHaveFiles ==
    /\ \A i \in DOMAIN date_ranges : FilesOf(date_ranges[i]) # {}
    /\ Len(date_ranges) <= Cardinality({f \in dir : Matches(f) /\ f.whole})

\* The process stopped after the file was linked and before the range was
\* appended.
C35_Witness ==
    /\ pc = "stopped"
    /\ SavingFile \in dir
    /\ Len(date_ranges) = 1
    /\ FilesOf(SavedRange(saving.date_range)) = {SavingFile}
    /\ date_ranges[1] # SavedRange(saving.date_range)

\* C36: for an input other than '.' and '..', sanitize_account_name returns
\* a name of one directory under output_directory: not empty, of characters
\* of [a-zA-Z0-9.-] only, and neither '.' nor '..'.
C36_SanitizedNameIsSafe ==
    (SanitizeCalled /\ call.arg \notin DotNames) =>
        /\ ~call.ret.raised
        /\ call.ret.value # <<>>
        /\ \A i \in 1..Len(call.ret.value) : call.ret.value[i] \in {"a", ".", "-"}
        /\ call.ret.value \notin DotNames

\* C37: with slowdown set, a request starts at least MinDelay seconds after
\* the request before it started, however long that one took and however
\* long the process did other things in between.
C37_StartsSpaced ==
    (rate # None /\ rate.slowdown /\ rate.count >= 2) => rate.spacing >= MinDelay

\* A request that started MinDelay seconds after the one before it, which
\* had only just ended.
C37_Witness ==
    /\ rate # None
    /\ rate.slowdown
    /\ rate.count = 2
    /\ rate.spacing = MinDelay
    /\ rate.gap = 0

\* The calls of run_config whose subprocess is running: <<invocation, index>>.
RunningJobs ==
    {job \in (DOMAIN updating.invs) \X (1..MaxConfigs) :
        /\ job[2] \in DOMAIN updating.invs[job[1]].jobs
        /\ updating.invs[job[1]].jobs[job[2]] = "running"}

ConfigOf(job) == updating.invs[job[1]].todo[job[2]]

\* C38: no two subprocesses that are running at the same time are of the
\* same configuration.
C38_OneSubprocessPerConfig ==
    updating # None =>
        \A j1 \in RunningJobs, j2 \in RunningJobs :
            j1 # j2 => ConfigOf(j1) # ConfigOf(j2)

\* The names of a list of configurations.
Listed(configs) == {configs[k] : k \in DOMAIN configs}

\* C39: a configuration of the command line is left out of the update only
\* when --force is not given and its marker is less than 24 hours old; a
\* marker is written only at the end of a run whose subprocess returned 0, and
\* then is given the time of that moment; the end of a run that failed or
\* raised leaves every marker as it was.
C39_MarkerRules ==
    [][updating # None =>
         /\ \A i \in DOMAIN updating.invs :
               LET inv == updating.invs[i] IN
               (~inv.built /\ updating'.invs[i].built) =>
                  \A n \in Listed(inv.configs) \ Listed(updating'.invs[i].todo) :
                     /\ ~inv.force
                     /\ updating.markers[n] # NoMarker
                     /\ updating.wall - updating.markers[n] < 24 * 60 * 60
         /\ \A n \in ConfigNames :
               updating'.markers[n] # updating.markers[n] =>
                  /\ updating'.markers[n] = updating.wall
                  /\ \E i \in DOMAIN updating.invs :
                        \E k \in DOMAIN updating.invs[i].jobs :
                           /\ updating.invs[i].todo[k] = n
                           /\ updating.invs[i].jobs[k] = "running"
                           /\ updating'.invs[i].jobs[k] = "zero"
         /\ \A i \in DOMAIN updating.invs :
               \A k \in DOMAIN updating.invs[i].jobs :
                  (/\ updating.invs[i].jobs[k] = "running"
                   /\ updating'.invs[i].jobs[k] \in {"nonzero", "raised"})
                     => updating'.markers = updating.markers
      ]_vars

\* An update of two configurations: the first, updated 12 hours before, was
\* skipped; the run of the second, updated 36 hours before, failed, and its
\* marker is as it was.
C39_Witness ==
    /\ updating # None
    /\ updating.invs[1].configs = <<"a", "b">>
    /\ updating.invs[1].built
    /\ updating.invs[1].todo = <<"b">>
    /\ updating.invs[1].jobs = <<"nonzero">>
    /\ updating.markers = [n \in ConfigNames |-> IF n = "a" THEN 2 * HalfDay ELSE 0]
    /\ updating.ticks = 0

\* The calls of func made so far that raised.
RaisingCalls == {k \in DOMAIN retrying.outcomes : retrying.outcomes[k].raised}

\* C40: retry(func, num_tries = n) with n >= 1 calls func at most n times;
\* it returns the result of the first call that does not raise, and makes
\* no call after it; when n calls raised it raises the exception of the n-th;
\* it has slept retry_delay after every call that raised but the last one of
\* a retry that has ended by raising.
C40_RetryContract ==
    (retrying # None /\ retrying.n >= 1) =>
        LET made == Len(retrying.outcomes) IN
        /\ made <= retrying.n
        /\ \A k \in 1..(made - 1) : retrying.outcomes[k].raised
        /\ (made >= 1 /\ ~retrying.outcomes[made].raised) =>
              /\ retrying.done
              /\ retrying.ret = retrying.outcomes[made]
        /\ (retrying.done /\ ~retrying.ret.raised) =>
              /\ made >= 1
              /\ retrying.ret = retrying.outcomes[made]
        /\ (made = retrying.n /\ Cardinality(RaisingCalls) = retrying.n) =>
              /\ retrying.done
              /\ retrying.ret = retrying.outcomes[retrying.n]
        /\ retrying.done => retrying.sleeps = made - 1
        /\ ~retrying.done => retrying.sleeps = made
        /\ retrying.slept = retrying.sleeps * retrying.retry_delay

\* Three tries that all raised, with a delay: the third exception is raised
\* after two sleeps.
C40_Witness ==
    /\ retrying # None
    /\ retrying.n = 3
    /\ retrying.retry_delay = 1
    /\ retrying.done
    /\ Len(retrying.outcomes) = 3
    /\ retrying.ret = Raised(<<"ValueError", 3>>)
    /\ retrying.outcomes[1] = Raised(<<"TimeoutException", 1>>)
    /\ retrying.slept = 2

====
